---- MODULE Spec2Model ----
(***************************************************************************)
(* Model of parse.py: the curriculum page parser (parse) and the module   *)
(* level aggregation loop that drives it over the fixed list of pages.    *)
(*                                                                         *)
(* A page is the sequence of its elements in document order; every        *)
(* element carries its tag, its source line, its parent and its text, so  *)
(* that find, find_next, find_next_sibling and sourceline are computed    *)
(* the way the DOM library computes them.  Text is a sequence of one      *)
(* character strings, so that the cleaning, splitting and lower-casing of *)
(* a cell are computed rather than assumed.                               *)
(***************************************************************************)
EXTENDS Integers, Sequences, FiniteSets, TLC

VARIABLES
    web,                      \* what each url of docs serves during the run
    runtime,                  \* how the interpreter reclaims objects
    n,                        \* index into docs of the page being processed
    pc,                       \* position of the program
    soup,                     \* the parsed page inside parse
    title,                    \* parse: title
    outputs,                  \* parse: the two file names opened (or <<>>)
    h2, h3, row,              \* parse: the three cursors
    section, subsection,      \* parse: current heading texts
    counts,                   \* parse: counts
    words_in_page_by_level,   \* parse: words_in_page_by_level
    result,                   \* module: result of the last parse call
    all_words,                \* module: all_words
    words_by_level,           \* module: words_by_level
    files,                    \* per page csv files: name -> lines written
    raw_files,                \* consolidated files: level -> set of lines
    open_files,               \* names of files opened and not closed
    stdout,                   \* lines printed
    entry_words,              \* history: all_words when parse was entered
    files_before,             \* history: files when parse was entered
    sub_log,                  \* history: subsections visited in this parse
    row_log,                  \* history: rows visited in this parse
    cell_log,                 \* history: cells read in this parse
    kept_log                  \* history: every word kept during the run

vars == <<web, runtime, n, pc, soup, title, outputs, h2, h3, row, section, subsection,
          counts, words_in_page_by_level, result, all_words, words_by_level,
          files, raw_files, open_files, stdout, entry_words, files_before,
          sub_log, row_log, cell_log, kept_log>>

----------------------------------------------------------------------------
(* Bounds of the model. *)

\* Largest number of top-level blocks (h2, h3, table) of a generated page.
MaxBlocks == 4

----------------------------------------------------------------------------
(* Python values. *)

\* None, as returned by find, find_next and find_next_sibling.
None == 0

all_levels == <<"A1", "A2", "B1", "B2", "C1", "C2">>

\* docs: page number and level pair of each url (the url is the index).
docs == << [page_number |-> 8, levels |-> <<"A1", "A2">>],
           [page_number |-> 8, levels |-> <<"B1", "B2">>],
           [page_number |-> 8, levels |-> <<"C1", "C2">>],
           [page_number |-> 9, levels |-> <<"A1", "A2">>],
           [page_number |-> 9, levels |-> <<"B1", "B2">>],
           [page_number |-> 9, levels |-> <<"C1", "C2">>] >>

----------------------------------------------------------------------------
(* Text: str methods and the two regular expressions of parse. *)

LowerLetters == {"a", "b"}
UpperLetters == {"A", "B"}

\* str.lower on one character.
LowerChar(c) == IF c = "A" THEN "a" ELSE IF c = "B" THEN "b" ELSE c

\* str.lower
lower(s) == [k \in 1..Len(s) |-> LowerChar(s[k])]

\* The character class [a-zA-Z... ] of the first re.sub: letters and space.
IsSpanishChar(c) == c \in LowerLetters \cup UpperLetters \cup {" "}

\* re.sub(r'[^a-zA-Z... ]', ' ', text)
SubNonSpanish(s) == [k \in 1..Len(s) |-> IF IsSpanishChar(s[k]) THEN s[k] ELSE " "]

\* re.sub(r' +', ' ', text): a space that follows a space is dropped.
SubSpaces(s) ==
    LET left == SelectSeq([k \in 1..Len(s) |-> k],
                          LAMBDA k : ~(s[k] = " " /\ k > 1 /\ s[k - 1] = " "))
    IN  [j \in 1..Len(left) |-> s[left[j]]]

RECURSIVE LStrip(_)
LStrip(s) == IF s # <<>> /\ Head(s) = " " THEN LStrip(Tail(s)) ELSE s

RECURSIVE RStrip(_)
RStrip(s) == IF s # <<>> /\ s[Len(s)] = " " THEN RStrip(SubSeq(s, 1, Len(s) - 1)) ELSE s

\* str.strip
strip(s) == RStrip(LStrip(s))

\* str.split(sep): the pieces between the separators, empty pieces included.
RECURSIVE split(_, _)
split(s, sep) ==
    IF \E k \in 1..Len(s) : s[k] = sep
    THEN LET k == CHOOSE j \in 1..Len(s) : s[j] = sep /\ \A m \in 1..(j-1) : s[m] # sep
         IN  <<SubSeq(s, 1, k - 1)>> \o split(SubSeq(s, k + 1, Len(s)), sep)
    ELSE <<s>>

\* str.replace(' ', '_')
replace(s) == [k \in 1..Len(s) |-> IF s[k] = " " THEN "_" ELSE s[k]]

----------------------------------------------------------------------------
(* Pages. *)

Root == 0

Digit(k) == <<"1", "2", "3", "4", "5", "6", "7", "8", "9">>[k]

\* The text of the heading that is block k of its page: surrounded by
\* white space, and different for every heading of a page.
HeadingText(kind, k) == <<" ", IF kind = "h2" THEN "S" ELSE "s", Digit(k), " ">>

Cell(tag, text) == [tag |-> tag, text |-> text]

\* The tables a generated page is built from: each a sequence of rows, each
\* row a sequence of cells.
TStd   == << <<Cell("th", <<"A">>), Cell("th", <<"B">>)>>,
             <<Cell("td", <<"a">>), Cell("td", <<"b", ",", "A">>)>> >>
TTwo   == << <<Cell("td", <<"a", " ", " ", "b">>), Cell("td", <<" ", ",">>)>>,
             <<Cell("td", <<"A", "b", " ", "a", "b">>), Cell("td", <<"a", ",", "a">>)>> >>
TShort == << <<Cell("td", <<"b">>)>> >>
THdr   == << <<Cell("th", <<"A">>), Cell("th", <<"B">>)>> >>

Tables == {TStd, TTwo, TShort, THdr}

Heading(tag, nl) == [kind |-> tag, nl |-> nl, rows |-> <<>>]
Table(rows) == [kind |-> "table", nl |-> TRUE, rows |-> rows]

\* The blocks a generated page is a sequence of.  A heading starts on a new
\* line or on the line the previous element ended on.
Blocks == {Heading(t, b) : t \in {"h2", "h3"}, b \in BOOLEAN} \cup {Table(r) : r \in Tables}

Node(tag, line, parent, text) ==
    [tag |-> tag, sourceline |-> line, parent |-> parent, text |-> text]

\* The elements of one table row, in document order: tr, then its cells.
RowNodes(cells, line, table, at) ==
    <<Node("tr", line, table, <<>>)>> \o
    [k \in 1..Len(cells) |-> Node(cells[k].tag, line, at, cells[k].text)]

RECURSIVE TableNodes(_, _, _, _, _)
TableNodes(rows, k, line, table, acc) ==
    IF k > Len(rows) THEN acc
    ELSE TableNodes(rows, k + 1, line + 1, table,
                    acc \o RowNodes(rows[k], line + 1, table, Len(acc) + 1))

\* The elements of a page in document order, with their source lines.
RECURSIVE Flatten(_, _, _, _)
Flatten(blocks, k, line, acc) ==
    IF k > Len(blocks) THEN acc
    ELSE LET b == blocks[k]
             at == IF b.nl THEN line + 1 ELSE line
         IN  IF b.kind = "table"
             THEN LET t == Len(acc) + 1
                      withRows == TableNodes(b.rows, 1, at, t,
                                             acc \o <<Node("table", at, Root, <<>>)>>)
                  IN  Flatten(blocks, k + 1, at + Len(b.rows), withRows)
             ELSE Flatten(blocks, k + 1, at,
                          acc \o <<Node(b.kind, at, Root, HeadingText(b.kind, k))>>)

H1Text == <<" ", "N", " ", "g", ".", " ", "I">>

Page(blocks) == [reachable |-> TRUE, has_h1 |-> TRUE, h1 |-> H1Text,
                 nodes |-> Flatten(blocks, 1, 1, <<>>)]

\* A page with no h1, and a url that cannot be fetched.
NoH1 == [reachable |-> TRUE, has_h1 |-> FALSE, h1 |-> <<>>, nodes |-> <<>>]
Unreachable == [reachable |-> FALSE, has_h1 |-> FALSE, h1 |-> <<>>, nodes |-> <<>>]

BlockSeqs == UNION {[1..m -> Blocks] : m \in 0..MaxBlocks}

\* The pages a single parse is explored on.
ParseDocs == {Page(bs) : bs \in BlockSeqs} \cup {NoH1}

\* The pages a whole run is explored on: three that parse returns from,
\* and three it raises on (the last one after its first subsection).
GoodDocs == { Page(<<Heading("h2", TRUE), Heading("h3", TRUE), Table(TStd)>>),
              Page(<<Heading("h2", TRUE), Heading("h3", TRUE), Table(TTwo),
                     Heading("h2", TRUE), Heading("h3", TRUE), Table(TStd)>>),
              Page(<<Heading("h2", TRUE), Heading("h3", TRUE), Table(TShort),
                     Heading("h3", FALSE), Table(TStd)>>) }
BadDoc == Page(<<Heading("h2", TRUE), Heading("h3", TRUE), Table(TTwo),
                 Heading("h3", TRUE), Table(TShort)>>)
RunDocs == GoodDocs \cup {BadDoc, NoH1, Unreachable}
Fails(page) == page \in {BadDoc, NoH1, Unreachable}

\* An interpreter either closes a file the moment the last reference to it
\* goes (reference counting) or at some later collection (tracing).
Runtimes == {"refcount", "tracing"}

----------------------------------------------------------------------------
(* The DOM queries parse uses.  An element is its index in soup.nodes. *)

First(S) == IF S = {} THEN None ELSE CHOOSE m \in S : \A k \in S : m <= k

\* soup.find(tag): the first element with that tag.
find(nodes, tag) == First({m \in 1..Len(nodes) : nodes[m].tag = tag})

\* element.find_next(tag): the first element with that tag after it in
\* document order, whatever its parent.
find_next(nodes, at, tag) ==
    First({m \in (at + 1)..Len(nodes) : nodes[m].tag = tag})

\* find_next_sibling with the search starting at the element itself.
find_next_sibling_self(nodes, at, tag) ==
    First({m \in at..Len(nodes) :
              nodes[m].tag = tag /\ nodes[m].parent = nodes[at].parent})

\* element.find_next_sibling(tag): the first later element with that tag
\* and the same parent.
find_next_sibling(nodes, at, tag) ==
    First({m \in (at + 1)..Len(nodes) :
              nodes[m].tag = tag /\ nodes[m].parent = nodes[at].parent})

sourceline(nodes, at) == nodes[at].sourceline

----------------------------------------------------------------------------
(* The body of parse. *)

\* FileName without the page number.
FileName_NoPage(level, page_number, title_underbar) == <<level, 0, title_underbar>>

\* The name of a per page csv file: level, page number, title_underbar.
FileName(level, page_number, title_underbar) == <<level, page_number, title_underbar>>

\* title = h1.text.strip().split('.')[0]
Title(h1) == split(strip(h1), ".")[1]

Header == <<"Section", "Subsection", "Word">>

\* The line written for a word: the word column is the literal "word".
Record(sec, sub, word) == <<sec, sub, "word">>

\* open(name, 'w') followed by the write of the header.
OpenAll(fs, names) ==
    [f \in DOMAIN fs \cup {names[k] : k \in 1..Len(names)} |->
        IF \E k \in 1..Len(names) : names[k] = f THEN <<Header>> ELSE fs[f]]

\* Write with the write placed after the loop over set_words.
Write_Once(fs, name, line, times) ==
    [fs EXCEPT ![name] = @ \o [k \in 1..(IF times > 0 THEN 1 ELSE 0) |-> line]]

\* outputs[i].write(line), repeated times times.
Write(fs, name, line, times) ==
    [fs EXCEPT ![name] = @ \o [k \in 1..times |-> line]]

\* InSection without the comparison of source lines.
InSection_NoLine(nodes, sub, next_h2) == sub # None

\* The condition of the subsection loop.
InSection(nodes, sub, next_h2) ==
    IF sub = None THEN FALSE
    ELSE IF next_h2 = None THEN TRUE
    ELSE sourceline(nodes, sub) < sourceline(nodes, next_h2)

\* The condition of the row loop.
InSubsection(nodes, r, next_h3) ==
    IF r = None THEN FALSE
    ELSE IF next_h3 = None THEN TRUE
    ELSE sourceline(nodes, r) < sourceline(nodes, next_h3)

\* Keep without the test against all_words.
Keep_NoDedup(word, seen) == word = lower(word)

\* Keep without the test against the lowercase form.
Keep_NoLower(word, seen) == word \notin seen

\* The test that keeps a word of a cell.
Keep(word, seen) == word = lower(word) /\ word \notin seen

\* AddWord with the word left out of all_words.
AddWord_Forget(seen, word) == seen

\* all_words.add(word)
AddWord(seen, word) == seen \cup {word}

\* for word in list_words: ...
RECURSIVE KeepLoop(_, _, _, _)
KeepLoop(list_words, k, set_words, seen) ==
    IF k > Len(list_words) THEN [set_words |-> set_words, all_words |-> seen]
    ELSE IF Keep(list_words[k], seen)
         THEN KeepLoop(list_words, k + 1, set_words \cup {list_words[k]},
                       AddWord(seen, list_words[k]))
         ELSE KeepLoop(list_words, k + 1, set_words, seen)

\* The cleaned text of a cell.
CellText(text) == strip(SubSpaces(SubNonSpanish(text)))

\* One cell: the words kept from it and all_words after it.
ReadCell(text, seen) ==
    IF CellText(text) = <<>>
    THEN [set_words |-> {}, all_words |-> seen]
    ELSE KeepLoop(split(CellText(text), " "), 1, {}, seen)

\* The two iterations of "for i in range(2)" on one row: the cells read,
\* the words kept from each, all_words afterwards, and whether cell.text
\* was reached with cell None.  cells[1] is the cell of i = 0.
RECURSIVE ReadRow(_, _, _, _, _)
ReadRow(nodes, cell, seen, cells, kept) ==
    IF Len(cells) = 2
    THEN [raised |-> FALSE, cells |-> cells, kept |-> kept, all_words |-> seen]
    ELSE LET next == find_next(nodes, cell, "td")
         IN  IF next = None
             THEN [raised |-> TRUE, cells |-> cells, kept |-> kept, all_words |-> seen]
             ELSE LET c == ReadCell(nodes[next].text, seen)
                  IN  ReadRow(nodes, next, c.all_words,
                              Append(cells, next), Append(kept, c.set_words))

\* Right alignment to width 4 of "{count: >4d}": the number of pad spaces.
Pad4(count) == IF count < 10 THEN 3 ELSE IF count < 100 THEN 2
               ELSE IF count < 1000 THEN 1 ELSE 0

\* The element a heading text was read from.
NodeOf(nodes, tag, text) ==
    First({m \in 1..Len(nodes) : nodes[m].tag = tag /\ strip(nodes[m].text) = text})

levels == docs[n].levels
page_number == docs[n].page_number
InParse == pc \in {"open", "sections", "subsections", "rows", "print"}

parse_locals == <<soup, title, outputs, h2, h3, row, section, subsection,
                  counts, words_in_page_by_level>>
module_state == <<all_words, words_by_level, raw_files, result>>
history == <<entry_words, files_before, sub_log, row_log, cell_log, kept_log>>

----------------------------------------------------------------------------
(* Actions. *)

\* requests.get succeeds and the page is parsed into soup.
Fetch ==
    /\ pc = "fetch"
    /\ web[n].reachable
    /\ soup' = web[n]
    /\ pc' = "open"
    /\ entry_words' = all_words
    /\ files_before' = files
    /\ sub_log' = <<>> /\ row_log' = <<>> /\ cell_log' = <<>>
    /\ UNCHANGED <<web, runtime, n, title, outputs, h2, h3, row, section, subsection,
                   counts, words_in_page_by_level, module_state, files,
                   open_files, stdout, kept_log>>

\* requests.get raises: nothing catches it.
FetchRaises ==
    /\ pc = "fetch"
    /\ ~web[n].reachable
    /\ pc' = "crashed"
    /\ UNCHANGED <<web, runtime, n, parse_locals, module_state, files, open_files,
                   stdout, history>>

\* h1 is None: h1.text raises before any file is opened.
TitleRaises ==
    /\ pc = "open"
    /\ ~soup.has_h1
    /\ pc' = "crashed"
    /\ UNCHANGED <<web, runtime, n, parse_locals, module_state, files, open_files,
                   stdout, history>>

\* From the title to the initialisation of the walk.
Open ==
    /\ pc = "open"
    /\ soup.has_h1
    /\ title' = Title(soup.h1)
    /\ outputs' = [i \in 1..2 |-> FileName(levels[i], page_number, replace(title'))]
    /\ files' = OpenAll(files, outputs')
    /\ open_files' = open_files \cup {outputs'[i] : i \in 1..2}
    /\ h2' = find(soup.nodes, "h2")
    /\ counts' = <<0, 0>>
    /\ words_in_page_by_level' = <<{}, {}>>
    /\ pc' = "sections"
    /\ UNCHANGED <<web, runtime, n, soup, h3, row, section, subsection, module_state,
                   stdout, history>>

\* One pass of "while h2 is not None" up to the subsection loop.
Section ==
    /\ pc = "sections"
    /\ h2 # None
    /\ section' = strip(soup.nodes[h2].text)
    /\ h3' = find_next(soup.nodes, h2, "h3")
    /\ h2' = find_next_sibling(soup.nodes, h2, "h2")
    /\ pc' = "subsections"
    /\ UNCHANGED <<web, runtime, n, soup, title, outputs, row, subsection, counts,
                   words_in_page_by_level, module_state, files, open_files,
                   stdout, history>>

SectionsEnd ==
    /\ pc = "sections"
    /\ h2 = None
    /\ pc' = "print"
    /\ UNCHANGED <<web, runtime, n, parse_locals, module_state, files, open_files,
                   stdout, history>>

\* One pass of the subsection loop up to the row loop.
Subsection ==
    /\ pc = "subsections"
    /\ InSection(soup.nodes, h3, h2)
    /\ subsection' = strip(soup.nodes[h3].text)
    /\ row' = find_next(soup.nodes, h3, "tr")
    /\ h3' = find_next_sibling(soup.nodes, h3, "h3")
    /\ sub_log' = Append(sub_log, [section |-> NodeOf(soup.nodes, "h2", section),
                                   next_h2 |-> h2, h3 |-> h3])
    /\ pc' = "rows"
    /\ UNCHANGED <<web, runtime, n, soup, title, outputs, h2, section, counts,
                   words_in_page_by_level, module_state, files, open_files,
                   stdout, entry_words, files_before, row_log, cell_log, kept_log>>

SubsectionsEnd ==
    /\ pc = "subsections"
    /\ ~InSection(soup.nodes, h3, h2)
    /\ pc' = "sections"
    /\ UNCHANGED <<web, runtime, n, parse_locals, module_state, files, open_files,
                   stdout, history>>

\* What the cells read on a row change, whether or not the row raises.
RowEffects(r) ==
    /\ all_words' = r.all_words
    /\ counts' = [i \in 1..2 |-> counts[i] +
                     IF i <= Len(r.kept) THEN Cardinality(r.kept[i]) ELSE 0]
    /\ words_in_page_by_level' =
           [i \in 1..2 |-> words_in_page_by_level[i] \cup
                     IF i <= Len(r.kept) THEN r.kept[i] ELSE {}]
    /\ files' = LET one == IF Len(r.kept) >= 1
                           THEN Write(files, outputs[1], Record(section, subsection, "w"),
                                      Cardinality(r.kept[1]))
                           ELSE files
                IN  IF Len(r.kept) >= 2
                    THEN Write(one, outputs[2], Record(section, subsection, "w"),
                               Cardinality(r.kept[2]))
                    ELSE one
    /\ row_log' = Append(row_log, [section |-> NodeOf(soup.nodes, "h2", section),
                                   h3 |-> NodeOf(soup.nodes, "h3", subsection),
                                   next_h2 |-> h2, next_h3 |-> h3, row |-> row])
    /\ cell_log' = cell_log \o
           [i \in 1..Len(r.cells) |->
               [section |-> NodeOf(soup.nodes, "h2", section),
                h3 |-> NodeOf(soup.nodes, "h3", subsection),
                row |-> row, cell |-> r.cells[i], i |-> i, kept |-> r.kept[i]]]
    /\ kept_log' = kept_log \o
           [i \in 1..Len(r.cells) |->
               [doc |-> n, level |-> levels[i], kept |-> r.kept[i],
                text |-> soup.nodes[r.cells[i]].text]]

\* One pass of the row loop: both cells are read.
Row ==
    /\ pc = "rows"
    /\ InSubsection(soup.nodes, row, h3)
    /\ LET r == ReadRow(soup.nodes, row, all_words, <<>>, <<>>)
       IN  /\ ~r.raised
           /\ RowEffects(r)
    /\ row' = find_next_sibling(soup.nodes, row, "tr")
    /\ pc' = "rows"
    /\ UNCHANGED <<web, runtime, n, soup, title, outputs, h2, h3, section, subsection,
                   words_by_level, raw_files, result, open_files, stdout,
                   entry_words, files_before, sub_log>>

\* One pass of the row loop in which find_next('td') returns None:
\* cell.text raises, after the cells read before it took effect.
RowRaises ==
    /\ pc = "rows"
    /\ InSubsection(soup.nodes, row, h3)
    /\ LET r == ReadRow(soup.nodes, row, all_words, <<>>, <<>>)
       IN  /\ r.raised
           /\ RowEffects(r)
    /\ pc' = "crashed"
    /\ UNCHANGED <<web, runtime, n, soup, title, outputs, h2, h3, row, section, subsection,
                   words_by_level, raw_files, result, open_files, stdout,
                   entry_words, files_before, sub_log>>

RowsEnd ==
    /\ pc = "rows"
    /\ ~InSubsection(soup.nodes, row, h3)
    /\ pc' = "subsections"
    /\ UNCHANGED <<web, runtime, n, parse_locals, module_state, files, open_files,
                   stdout, history>>

\* The three prints and the return.  parse never closes outputs: on return
\* the two files are closed only by an interpreter that reclaims an object
\* the moment its last reference goes; another one leaves them open.
Return ==
    /\ pc = "print"
    /\ stdout' = stdout \o << <<"Section", page_number, 0, title>>,
                             <<"Level", levels[1], Pad4(counts[1]), counts[1]>>,
                             <<"Level", levels[2], Pad4(counts[2]), counts[2]>> >>
    /\ result' = words_in_page_by_level
    /\ open_files' = IF runtime = "refcount"
                      THEN open_files \ {outputs[i] : i \in 1..2}
                      ELSE open_files
    /\ pc' = "aggregate"
    /\ UNCHANGED <<web, runtime, n, parse_locals, all_words, words_by_level, raw_files,
                   files, history>>

\* The two updates of words_by_level and the step to the next doc.
Aggregate ==
    /\ pc = "aggregate"
    /\ words_by_level' =
           [l \in DOMAIN words_by_level |->
               words_by_level[l] \cup UNION {result[i] : i \in {j \in 1..2 : levels[j] = l}}]
    /\ n' = n + 1
    /\ pc' = IF n = Len(docs) THEN "finish" ELSE "fetch"
    /\ UNCHANGED <<web, runtime, parse_locals, all_words, raw_files, result, files,
                   open_files, stdout, history>>

\* The total and the six consolidated files, each opened, written, closed.
Finish ==
    /\ pc = "finish"
    /\ stdout' = Append(stdout, <<"Total", "", 0, Cardinality(all_words)>>)
    /\ raw_files' = [l \in DOMAIN words_by_level |-> words_by_level[l]]
    /\ pc' = "done"
    /\ UNCHANGED <<web, runtime, n, parse_locals, all_words, words_by_level, result,
                   files, open_files, history>>

Next ==
    \/ Fetch \/ FetchRaises \/ TitleRaises \/ Open
    \/ Section \/ SectionsEnd \/ Subsection \/ SubsectionsEnd
    \/ Row \/ RowRaises \/ RowsEnd
    \/ Return \/ Aggregate \/ Finish

Start ==
    /\ runtime \in Runtimes
    /\ n = 1
    /\ pc = "fetch"
    /\ soup = Unreachable
    /\ title = <<>>
    /\ outputs = <<>>
    /\ h2 = None /\ h3 = None /\ row = None
    /\ section = <<>> /\ subsection = <<>>
    /\ counts = <<0, 0>>
    /\ words_in_page_by_level = <<{}, {}>>
    /\ result = <<{}, {}>>
    /\ all_words = {}
    /\ words_by_level = [l \in {all_levels[k] : k \in 1..Len(all_levels)} |-> {}]
    /\ files = <<>>
    /\ raw_files = <<>>
    /\ open_files = {}
    /\ stdout = <<>>
    /\ entry_words = {}
    /\ files_before = <<>>
    /\ sub_log = <<>> /\ row_log = <<>> /\ cell_log = <<>> /\ kept_log = <<>>

\* A whole run: every url serves one of RunDocs.  What the urls after the
\* first failing one serve is never read: they are taken unreachable.
Init ==
    /\ web \in [1..Len(docs) -> RunDocs]
    /\ \A j, k \in 1..Len(docs) : (j < k /\ Fails(web[j])) => web[k] = Unreachable
    /\ Start

Spec == Init /\ [][Next]_vars

\* One call of parse, the first of the run, on any generated page.
InitParse ==
    /\ \E d \in ParseDocs :
           web = [k \in 1..Len(docs) |-> IF k = 1 THEN d ELSE Unreachable]
    /\ Start

NextParse ==
    \/ Fetch \/ TitleRaises \/ Open
    \/ Section \/ SectionsEnd \/ Subsection \/ SubsectionsEnd
    \/ Row \/ RowRaises \/ RowsEnd
    \/ Return

SpecParse == InitParse /\ [][NextParse]_vars

----------------------------------------------------------------------------
(* The run as a function of the pages served: the three loops of parse    *)
(* and the loop over docs, reduced to what they do to all_words.          *)

RECURSIVE RowsLoop(_, _, _, _)
RowsLoop(nodes, r, next_h3, seen) ==
    IF ~InSubsection(nodes, r, next_h3) THEN [raised |-> FALSE, all_words |-> seen]
    ELSE LET x == ReadRow(nodes, r, seen, <<>>, <<>>)
         IN  IF x.raised THEN [raised |-> TRUE, all_words |-> x.all_words]
             ELSE RowsLoop(nodes, find_next_sibling(nodes, r, "tr"), next_h3, x.all_words)

RECURSIVE SubsectionsLoop(_, _, _, _)
SubsectionsLoop(nodes, sub, next_h2, seen) ==
    IF ~InSection(nodes, sub, next_h2) THEN [raised |-> FALSE, all_words |-> seen]
    ELSE LET next_h3 == find_next_sibling(nodes, sub, "h3")
             x == RowsLoop(nodes, find_next(nodes, sub, "tr"), next_h3, seen)
         IN  IF x.raised THEN x
             ELSE SubsectionsLoop(nodes, next_h3, next_h2, x.all_words)

RECURSIVE SectionsLoop(_, _, _)
SectionsLoop(nodes, sec, seen) ==
    IF sec = None THEN [raised |-> FALSE, all_words |-> seen]
    ELSE LET next_h2 == find_next_sibling(nodes, sec, "h2")
             x == SubsectionsLoop(nodes, find_next(nodes, sec, "h3"), next_h2, seen)
         IN  IF x.raised THEN x
             ELSE SectionsLoop(nodes, next_h2, x.all_words)

\* parse(url): whether it raises, and all_words when it is left.
ParseWords(page, seen) ==
    IF ~page.reachable \/ ~page.has_h1 THEN [raised |-> TRUE, all_words |-> seen]
    ELSE SectionsLoop(page.nodes, find(page.nodes, "h2"), seen)

\* for doc in docs: all_words when the loop is left, by its end or by an
\* exception.
RECURSIVE RunWords(_, _, _)
RunWords(pages, k, seen) ==
    IF k > Len(pages) THEN seen
    ELSE LET x == ParseWords(pages[k], seen)
         IN  IF x.raised THEN x.all_words
             ELSE RunWords(pages, k + 1, x.all_words)

----------------------------------------------------------------------------
(* Vocabulary of the properties. *)

Range(f) == {f[k] : k \in DOMAIN f}

\* The all-lowercase tokens of a cell, whether seen before or not.
Qualifying(text) ==
    IF CellText(text) = <<>> THEN {}
    ELSE {w \in Range(split(CellText(text), " ")) : w = lower(w)}

\* Control is outside parse.
Left == ~InParse

\* The walk of parse has started and parse has not been left by an exception.
Walked == pc \in {"sections", "subsections", "rows", "print", "aggregate"}

\* The first h2 after an element in document order.
FollowingH2(nodes, at) == find_next(nodes, at, "h2")

RECURSIVE SumKept(_, _)
SumKept(log, k) == IF k > Len(log) THEN 0
                   ELSE Cardinality(log[k].kept) + SumKept(log, k + 1)

RECURSIVE SumLines(_, _)
SumLines(fs, names) ==
    IF names = {} THEN 0
    ELSE LET f == CHOOSE x \in names : TRUE
         IN  (Len(fs[f]) - 1) + SumLines(fs, names \ {f})

\* The pages of the run with those at positions j and k exchanged.
Swapped(j, k) == [m \in DOMAIN web |-> IF m = j THEN web[k] ELSE IF m = k THEN web[j] ELSE web[m]]

\* The td children of a row, in document order.
CellsOf(nodes, r) ==
    SelectSeq([m \in 1..Len(nodes) |-> m],
              LAMBDA m : nodes[m].tag = "td" /\ nodes[m].parent = r)

\* The rows of the span of subsection sub of section sec: the tr after the
\* h3 and before the next h3, or before the h2 that ends the section when
\* no h3 comes before it.
SpanRows(nodes, sec, sub) ==
    LET end_h2 == FollowingH2(nodes, sec)
        next_h3 == find_next(nodes, sub, "h3")
        bounds == {sourceline(nodes, m) : m \in {end_h2, next_h3} \ {None}}
    IN  {m \in (sub + 1)..Len(nodes) :
            nodes[m].tag = "tr" /\ \A b \in bounds : sourceline(nodes, m) < b}

----------------------------------------------------------------------------
(* C1: once control has left parse, by return or by exception, no file    *)
(* that parse opened is still open.                                        *)
C1_SinksClosedOnLeave == Left => open_files = {}

(* C2: a word is recorded once in the whole run: the sets of words kept   *)
(* from any two cells are disjoint, there is one record line per kept     *)
(* word, the two per page level sets are disjoint from each other and     *)
(* the six level vocabularies are pairwise disjoint.                      *)
C2_RecordedOnce ==
    /\ \A j, k \in DOMAIN kept_log :
           j # k => kept_log[j].kept \cap kept_log[k].kept = {}
    /\ SumLines(files, DOMAIN files) = SumKept(kept_log, 1)
    /\ words_in_page_by_level[1] \cap words_in_page_by_level[2] = {}
    /\ \A l1, l2 \in DOMAIN words_by_level :
           l1 # l2 => words_by_level[l1] \cap words_by_level[l2] = {}

\* The run has ended normally after two pages with a lowercase token in
\* common were read, and some level vocabulary got a word.
C2_Witness ==
    /\ pc = "done"
    /\ \E j, k \in DOMAIN kept_log :
           /\ kept_log[j].doc # kept_log[k].doc
           /\ Qualifying(kept_log[j].text) \cap Qualifying(kept_log[k].text) # {}
    /\ \E l \in DOMAIN words_by_level : words_by_level[l] # {}

\* The page being parsed was parsed to its end earlier in the run.
Reparsed == Walked /\ \E j \in 1..(n - 1) : web[j] = web[n]

(* C3: parsing a page a second time in the same run adds nothing:         *)
(* all_words stays as it was on entry, both counts stay 0, both level     *)
(* sets stay empty, both files hold the header only, and the two sets     *)
(* returned are empty and the two counts printed are 0.                   *)
C3_SecondParseNothingNew ==
    Reparsed =>
        /\ all_words = entry_words
        /\ counts = <<0, 0>>
        /\ words_in_page_by_level = <<{}, {}>>
        /\ \A i \in 1..2 : files[outputs[i]] = <<Header>>
        /\ pc = "aggregate" =>
               /\ result = <<{}, {}>>
               /\ \A i \in 1..2 : stdout[Len(stdout) - 2 + i][4] = 0

\* A second parse of a page with lowercase tokens in its cells has returned.
C3_Witness ==
    /\ Reparsed
    /\ pc = "aggregate"
    /\ \E k \in DOMAIN cell_log : Qualifying(soup.nodes[cell_log[k].cell].text) # {}

(* C4: a subsection is visited under a section only if its h3 lies on a   *)
(* line before the h2 that follows the section, no h3 is visited twice,   *)
(* and every record line names a section and a subsection so related.     *)
C4_SubsectionInsideSection ==
    Walked =>
        /\ \A k \in DOMAIN sub_log :
               LET e == sub_log[k]
                   end_h2 == FollowingH2(soup.nodes, e.section)
               IN  end_h2 # None =>
                       sourceline(soup.nodes, e.h3) < sourceline(soup.nodes, end_h2)
        /\ \A j, k \in DOMAIN sub_log : j # k => sub_log[j].h3 # sub_log[k].h3
        /\ \A i \in 1..2 : \A k \in 2..Len(files[outputs[i]]) :
               LET line == files[outputs[i]][k]
                   sec == NodeOf(soup.nodes, "h2", line[1])
                   sub == NodeOf(soup.nodes, "h3", line[2])
                   end_h2 == FollowingH2(soup.nodes, sec)
               IN  /\ sec # None /\ sub # None
                   /\ end_h2 # None =>
                          sourceline(soup.nodes, sub) < sourceline(soup.nodes, end_h2)

\* parse has returned from a page in which an h3 lies at or after the h2
\* that follows an earlier section, and that h3 was visited.
C4_Witness ==
    /\ pc = "aggregate"
    /\ \E s \in 1..Len(soup.nodes), k \in DOMAIN sub_log :
           /\ soup.nodes[s].tag = "h2"
           /\ FollowingH2(soup.nodes, s) # None
           /\ FollowingH2(soup.nodes, s) < sub_log[k].h3
           /\ sub_log[k].section # s

(* C5: after a failure of the fetch or the parse of a page the run takes  *)
(* no further step; the files the earlier pages wrote are as they were    *)
(* when the failing call began, and neither the total nor a consolidated  *)
(* file has been written.                                                  *)
C5_StopsAtFailure ==
    /\ [](pc = "crashed" =>
            /\ \A f \in DOMAIN files_before :
                   f \in DOMAIN files /\ files[f] = files_before[f]
            /\ Len(stdout) = 3 * (n - 1)
            /\ raw_files = <<>>)
    /\ [][pc # "crashed"]_vars

\* A page after the first failed once its own files held record lines,
\* with files of earlier pages on disk.
C5_Witness ==
    /\ pc = "crashed"
    /\ n > 1
    /\ \E f \in DOMAIN files_before : Len(files_before[f]) > 1
    /\ \E f \in DOMAIN files \ DOMAIN files_before : Len(files[f]) > 1

(* C6: the rows visited under a subsection are the rows of its span: each *)
(* lies before the next h3 and before the h2 that ends the section, and   *)
(* when the walk is over no row of the span of a visited subsection has   *)
(* been left out.                                                          *)
C6_RowsAreTheSpan ==
    Walked =>
        /\ \A k \in DOMAIN row_log :
               row_log[k].row \in SpanRows(soup.nodes, row_log[k].section, row_log[k].h3)
        /\ pc = "aggregate" =>
               \A j \in DOMAIN sub_log :
                   \A m \in SpanRows(soup.nodes, sub_log[j].section, sub_log[j].h3) :
                       \E k \in DOMAIN row_log :
                           row_log[k].h3 = sub_log[j].h3 /\ row_log[k].row = m

(* C7: the cell read as number i of a row is the i-th td of that row.     *)
C7_CellsOfTheRow ==
    Walked =>
        \A k \in DOMAIN cell_log :
            LET e == cell_log[k]
                own == CellsOf(soup.nodes, e.row)
            IN  e.i <= Len(own) /\ own[e.i] = e.cell

VisitedTokens == UNION {Qualifying(kept_log[k].text) : k \in DOMAIN kept_log}

Remaining(cursor) == IF cursor = None THEN 0 ELSE Len(soup.nodes) + 1 - cursor

\* The walk's variant: the three cursors, outermost first, then the
\* position in the loop nest, as one number.
Variant ==
    LET base == Len(soup.nodes) + 2
        rank == CASE pc = "rows" -> 4
                  [] pc = "subsections" -> 3
                  [] pc = "sections" -> 2
                  [] pc = "print" -> 1
                  [] OTHER -> 0
    IN  ((Remaining(h2) * base + Remaining(h3)) * base + Remaining(row)) * 5 + rank

(* C10: every pass of the section, subsection and row loop moves its      *)
(* cursor to a later element or to None; every step of the walk lowers    *)
(* a variant that cannot go below 0, so that parse returns or raises      *)
(* after finitely many steps.                                              *)
C10_WalkTerminates ==
    [][/\ (pc = "sections" /\ pc' = "subsections") => (h2' = None \/ h2' > h2)
       /\ (pc = "subsections" /\ pc' = "rows") => (h3' = None \/ h3' > h3)
       /\ (pc = "rows" /\ pc' = "rows") => (row' = None \/ row' > row)
       /\ pc \in {"sections", "subsections", "rows", "print"} =>
              (Variant' < Variant /\ Variant' >= 0)]_vars

\* parse has returned from a page with a section without subsection and a
\* subsection without row.
C10_Witness ==
    /\ pc = "aggregate"
    /\ \E s \in 1..Len(soup.nodes) :
           soup.nodes[s].tag = "h2" /\ \A k \in DOMAIN sub_log : sub_log[k].section # s
    /\ \E k \in DOMAIN sub_log : \A j \in DOMAIN row_log : row_log[j].h3 # sub_log[k].h3
====
